---- MODULE Spec2Model ----
(***************************************************************************)
(* Post access layer of GoCore_HTTP_Tool: the handlers of                  *)
(* src/handlers/post.go over the MongoDB collection (package db) and the   *)
(* Redis cache (package cache, src/db/mongo.go), with the pagination       *)
(* parser of src/utils/response.go.  Every store call and every cache call *)
(* of a handler is one step, so that concurrent requests interleave at the *)
(* granularity of the I/O the code performs.                               *)
(***************************************************************************)
EXTENDS Integers, Sequences, FiniteSets, Bags, TLC

\* ---------------------------------------------------------------- bounds
MaxOps == 4            \* requests sent in one behaviour
MaxId == 2             \* largest id the allocator is let to reach
MaxStoreFaults == 1    \* store calls that fail in one behaviour
MaxCacheFaults == 1    \* cache calls that fail in one behaviour
MaxRawLen == 2         \* length of a raw limit/offset query value

Procs == {"r1", "r2"}  \* request goroutines served concurrently
Bodies == {"a", "b"}   \* post bodies
NoProc == "none"

\* ------------------------------------------------------------ data model
Post(i, b) == [id |-> i, body |-> b]
NoPost == Post(0, "")

IdDom == 1..MaxId

\* Patch documents of PUT /posts/{id}: a map with any of the fields id, body
\* (0 and "" stand for a field the map does not have).
PatchIds == {0, 1}
Patches == [id : PatchIds, body : Bodies \cup {""}]
NoPatch == [id |-> 0, body |-> ""]
PatchHas(u, f) == IF f = "id" THEN u.id # 0 ELSE u.body # ""

\* ------------------------------------------------------------------ keys
postCachePrefix == "post:"
allPostsKey == <<"all_posts">>
BuildPostKey(i) == <<postCachePrefix, i>>
NoEntry == <<>>

\* JSON text of a cache value: the token list json.Marshal writes.
MarshalPost(p) == <<"{", "id", p.id, "body", p.body, "}">>
UnmarshalPostOk(d) == Len(d) = 6 /\ d[1] = "{" /\ d[2] = "id" /\ d[4] = "body"
UnmarshalPost(d) == Post(d[3], d[5])
MarshalPosts(ps) == <<"[">> \o [k \in 1..Len(ps) |-> MarshalPost(ps[k])] \o <<"]">>
UnmarshalPostsOk(d) == Len(d) >= 2 /\ d[1] = "[" /\ d[Len(d)] = "]"
UnmarshalPosts(d) == [k \in 1..(Len(d) - 2) |-> UnmarshalPost(d[k + 1])]

\* ----------------------------------------------------------------- store
\* The collection is a bag of documents; the unique index on id is what
\* keeps it a set (ensurePostIndex).
Docs(s) == BagToSet(s)
Matching(s, i) == {d \in Docs(s) : d.id = i}
DuplicateKey(s, i) == Matching(s, i) # {}
InsertDoc(s, d) == s (+) SetToBag({d})
RemoveDoc(s, d) == s (-) SetToBag({d})

SetMax(S) == CHOOSE m \in S : \A x \in S : x <= m
\* $sort id desc, $limit 1, $project maxID: 0 stands for an empty cursor.
MaxID(s) == IF Docs(s) = {} THEN 0 ELSE SetMax({d.id : d \in Docs(s)})

\* The update as it would be were the patch to replace the document.
ApplySetReplace(d, u) == Post(IF PatchHas(u, "id") THEN u.id ELSE d.id, u.body)

\* $set of a patch on one document.
ApplySet(d, u) ==
    Post(IF PatchHas(u, "id") THEN u.id ELSE d.id,
         IF PatchHas(u, "body") THEN u.body ELSE d.body)

Min2(a, b) == IF a < b THEN a ELSE b

RECURSIVE SortedDocs(_)
SortedDocs(s) ==
    IF Docs(s) = {} THEN <<>>
    ELSE LET m == CHOOSE d \in Docs(s) : \A e \in Docs(s) : d.id <= e.id
         IN  <<m>> \o SortedDocs(RemoveDoc(s, m))

\* Find with SetLimit, SetSkip and SetSort id ascending.
FindPage(s, limit, offset) ==
    LET all == SortedDocs(s)
    IN  IF offset >= Len(all) THEN <<>>
        ELSE SubSeq(all, offset + 1, Min2(offset + limit, Len(all)))

CountDocuments(s) == BagCardinality(s)

\* ------------------------------------------------- pagination parameters
Digits == {"0", "1", "2"}
RawChars == Digits \cup {"-", "+", "x"}
DigitVal(c) == IF c = "0" THEN 0 ELSE IF c = "1" THEN 1 ELSE 2

RECURSIVE DecVal(_)
DecVal(s) == IF s = <<>> THEN 0
             ELSE 10 * DecVal(SubSeq(s, 1, Len(s) - 1)) + DigitVal(s[Len(s)])

Signed(s) == s # <<>> /\ s[1] \in {"-", "+"}
Unsigned(s) == IF Signed(s) THEN Tail(s) ELSE s
\* strconv.Atoi: an optional sign and at least one decimal digit.
AtoiOk(s) == Unsigned(s) # <<>> /\ \A k \in 1..Len(Unsigned(s)) : Unsigned(s)[k] \in Digits
Atoi(s) == IF s # <<>> /\ s[1] = "-" THEN 0 - DecVal(Unsigned(s)) ELSE DecVal(Unsigned(s))

DefaultLimit == 10
DefaultOffset == 0

\* ParseLimit as it would be with the test parsed >= 0 of the offset.
ParseLimitNonNegative(l) ==
    IF l # <<>> /\ AtoiOk(l) /\ Atoi(l) >= 0 THEN Atoi(l) ELSE DefaultLimit

ParseLimit(l) == IF l # <<>> /\ AtoiOk(l) /\ Atoi(l) > 0 THEN Atoi(l) ELSE DefaultLimit
ParseOffset(o) == IF o # <<>> /\ AtoiOk(o) /\ Atoi(o) >= 0 THEN Atoi(o) ELSE DefaultOffset
ParsePaginationParams(l, o) == <<ParseLimit(l), ParseOffset(o)>>

\* ----------------------------------------------------------------- state
VARIABLES
    store,        \* db.PostCol: bag of documents
    cache,        \* Redis: key -> JSON text, NoEntry when the key is absent
    redisOn,      \* redisClient # nil, fixed by InitRedis
    postsMu,      \* holder of the process-wide mutex, NoProc when free
    pc,           \* position of each request goroutine in its handler
    req,          \* the request each goroutine serves
    loc,          \* handler locals, with the history of the request: the store
                  \* and cache calls it made (ev), whether one of its cache
                  \* calls failed (cf), the ids whose Delete had been
                  \* acknowledged when it started (gone)
    last,         \* the response written by the latest step, if it wrote one
    opsLeft,      \* requests the clients may still send
    storeFaults,  \* store calls that have failed so far
    cacheFaults,  \* cache calls that have failed so far
    maxAssigned,  \* history: largest id any Create has inserted
    ack,          \* history: per id, what the last acknowledged write left
    rawLimit,     \* parser check: raw limit value
    rawOffset,    \* parser check: raw offset value
    parsed        \* parser check: result of ParsePaginationParams

vars == <<store, cache, redisOn, postsMu, pc, req, loc, last, opsLeft,
          storeFaults, cacheFaults, maxAssigned, ack,
          rawLimit, rawOffset, parsed>>

parseVars == <<rawLimit, rawOffset, parsed>>

CacheKeys == {BuildPostKey(i) : i \in IdDom} \cup {allPostsKey}

NoAck == ""
Deleted == "deleted"

NoReq == [op |-> "none", id |-> 0, body |-> "", patch |-> NoPatch,
          limit |-> <<>>, offset |-> <<>>]
NoLoc == [post |-> NoPost, ps |-> <<>>, ev |-> <<>>, exp |-> NoAck,
          follow |-> NoPost, cf |-> FALSE, gone |-> {}]
NoResp == [proc |-> NoProc, op |-> "none", id |-> 0, patch |-> NoPatch,
           rawLimit |-> <<>>, rawOffset |-> <<>>,
           status |-> 0, kind |-> "none", post |-> NoPost, source |-> "",
           posts |-> <<>>, total |-> 0, limit |-> 0, offset |-> 0,
           ev |-> <<>>, exp |-> NoAck, follow |-> NoPost, cf |-> FALSE,
           rawId |-> <<>>, rawBody |-> <<>>, gone |-> {}]

\* Raw query values the requests of the full model carry.
PageRaws == {<<>>, <<"1">>}
NotParsed == <<0, 0>>

Init ==
    /\ store = EmptyBag
    /\ cache = [k \in CacheKeys |-> NoEntry]
    /\ redisOn \in BOOLEAN
    /\ postsMu = NoProc
    /\ pc = [p \in Procs |-> "idle"]
    /\ req = [p \in Procs |-> NoReq]
    /\ loc = [p \in Procs |-> NoLoc]
    /\ last = NoResp
    /\ opsLeft = MaxOps
    /\ storeFaults = 0
    /\ cacheFaults = 0
    /\ maxAssigned = 0
    /\ ack = [i \in IdDom |-> NoAck]
    /\ rawLimit = <<>>
    /\ rawOffset = <<>>
    /\ parsed = NotParsed

\* ------------------------------------------------------- step bookkeeping
Idle(p) == pc[p] = "idle"
InFlight(p) == ~Idle(p)
Creating(p) == pc[p] \in {"c_lock", "c_max", "c_insert"}

\* A step of p ends the "nothing in between" window of every other request.
Quiet(p, l) == [q \in Procs |-> IF q = p THEN l[q]
                                ELSE [l[q] EXCEPT !.follow = NoPost]]

Goto(p, to, l) ==
    /\ pc' = [pc EXCEPT ![p] = to]
    /\ loc' = Quiet(p, [loc EXCEPT ![p] = l])
    /\ last' = NoResp
    /\ UNCHANGED <<req, redisOn, opsLeft, parseVars>>

\* The end of a request as it would be were the mutex released only on the
\* success path.
FinishHoldingLock(p, r) ==
    /\ pc' = [pc EXCEPT ![p] = "idle"]
    /\ loc' = Quiet(p, [loc EXCEPT ![p] = NoLoc])
    /\ last' = [r EXCEPT !.proc = p, !.op = req[p].op, !.id = req[p].id,
                         !.patch = req[p].patch, !.rawLimit = req[p].limit,
                         !.rawOffset = req[p].offset,
                         !.cf = loc[p].cf \/ r.cf,
                         !.gone = {i \in loc[p].gone : ack[i] = Deleted}]
    /\ req' = [req EXCEPT ![p] = NoReq]
    /\ postsMu' = IF postsMu = p /\ r.status \in {200, 201} THEN NoProc ELSE postsMu
    /\ UNCHANGED <<redisOn, opsLeft, parseVars>>

\* Writing the response ends the handler; the deferred Unlock runs with it.
Finish(p, r) ==
    /\ pc' = [pc EXCEPT ![p] = "idle"]
    /\ loc' = Quiet(p, [loc EXCEPT ![p] = NoLoc])
    /\ last' = [r EXCEPT !.proc = p, !.op = req[p].op, !.id = req[p].id,
                         !.patch = req[p].patch, !.rawLimit = req[p].limit,
                         !.rawOffset = req[p].offset,
                         !.cf = loc[p].cf \/ r.cf,
                         !.gone = {i \in loc[p].gone : ack[i] = Deleted}]
    /\ req' = [req EXCEPT ![p] = NoReq]
    /\ postsMu' = IF postsMu = p THEN NoProc ELSE postsMu
    /\ UNCHANGED <<redisOn, opsLeft, parseVars>>

\* The expectation a reader took at its start still stands when no write to
\* the id has been acknowledged or applied since.
StandingExp(p) == IF loc[p].exp # NoAck /\ ack[req[p].id] = loc[p].exp
                  THEN loc[p].exp ELSE NoAck

Error(p, code) ==
    [NoResp EXCEPT !.status = code, !.kind = "error", !.ev = loc[p].ev,
                   !.exp = StandingExp(p), !.follow = loc[p].follow]

Begin(p, r, to, l) ==
    /\ Idle(p)
    /\ opsLeft > 0
    /\ opsLeft' = opsLeft - 1
    /\ req' = [req EXCEPT ![p] = r]
    /\ pc' = [pc EXCEPT ![p] = to]
    /\ loc' = Quiet(p, [loc EXCEPT ![p] = l])
    /\ last' = NoResp
    /\ UNCHANGED <<store, cache, redisOn, postsMu, storeFaults, cacheFaults,
                   maxAssigned, ack, parseVars>>

\* ------------------------------------------------------- cache functions
\* The invalidation as it would be were it to drop every key.
InvalidateEverything(c, i) == [k \in CacheKeys |-> NoEntry]

\* cache.InvalidatePostCache: one Del of the item key and all_posts
InvalidatePostCache(c, i) ==
    [k \in CacheKeys |-> IF k \in {BuildPostKey(i), allPostsKey} THEN NoEntry ELSE c[k]]
StoreInCache(c, k, data) == [c EXCEPT ![k] = data]
FetchOk(c, k) == c[k] # NoEntry

CacheFault == cacheFaults < MaxCacheFaults
StoreFault == storeFaults < MaxStoreFaults

\* -------------------------------------------------- GET /posts/{id}
\* The response of a GetPost that read the store.
FromStore(r) == r.op = "GetPost" /\ r.status = 200 /\ r.source = "database"

StartGetPost(p, i) ==
    Begin(p, [NoReq EXCEPT !.op = "GetPost", !.id = i], "gp_cache",
          [NoLoc EXCEPT !.exp = ack[i],
                        !.follow = IF FromStore(last) /\ last.id = i THEN last.post ELSE NoPost])

\* The metadata as it would be were every answer tagged as read from the store.
MetaFromDatabase(p, post, source) ==
    [NoResp EXCEPT !.status = 200, !.kind = "meta", !.post = post,
                   !.source = "database", !.ev = loc[p].ev,
                   !.exp = StandingExp(p), !.follow = loc[p].follow]

\* utils.RespondWithMetadata(w, post, source, latency, cacheHit)
Meta(p, post, source) ==
    [NoResp EXCEPT !.status = 200, !.kind = "meta", !.post = post,
                   !.source = source, !.ev = loc[p].ev,
                   !.exp = StandingExp(p), !.follow = loc[p].follow]

\* cache.GetCachedPost and the hit branch of handleGetPost
GetPostCached(p) ==
    /\ pc[p] = "gp_cache"
    /\ LET k == BuildPostKey(req[p].id) IN
       \/ /\ redisOn /\ FetchOk(cache, k) /\ UnmarshalPostOk(cache[k])
          /\ Finish(p, Meta(p, UnmarshalPost(cache[k]), "cache"))
       \/ /\ ~redisOn \/ ~FetchOk(cache, k) \/ ~UnmarshalPostOk(cache[k])
          /\ Goto(p, "gp_find", loc[p])
          /\ UNCHANGED postsMu
    /\ UNCHANGED <<store, cache, storeFaults, cacheFaults, maxAssigned, ack>>

\* db.PostCol.FindOne(id).Decode of handleGetPost
GetPostFind(p) ==
    /\ pc[p] = "gp_find"
    /\ \/ /\ Matching(store, req[p].id) = {}
          /\ Finish(p, [Error(p, 404) EXCEPT !.ev = <<"find">>])
       \/ /\ \E d \in Matching(store, req[p].id) :
                Goto(p, "gp_put", [loc[p] EXCEPT !.post = d, !.ev = <<"find">>])
          /\ UNCHANGED postsMu
    /\ UNCHANGED <<store, cache, storeFaults, cacheFaults, maxAssigned, ack>>

\* CachePost as it would be were the Set dropped.
CachePostDropped(c, post) == c

\* CachePost as it would be without the test of redisClient.
CachePostUnguarded(c, post) == StoreInCache(c, BuildPostKey(post.id), MarshalPost(post))

\* cache.CachePost
CachePost(c, post) ==
    IF redisOn THEN StoreInCache(c, BuildPostKey(post.id), MarshalPost(post)) ELSE c

\* cache.CachePost, then RespondWithMetadata(.., "database", .., false)
GetPostStore(p) ==
    /\ pc[p] = "gp_put"
    /\ cache' = CachePost(cache, loc[p].post)
    /\ Finish(p, Meta(p, loc[p].post, "database"))
    /\ UNCHANGED <<store, storeFaults, cacheFaults, maxAssigned, ack>>

\* ------------------------------------------------------------ POST /posts
StartCreate(p, b) ==
    /\ MaxID(store) + Cardinality({q \in Procs : Creating(q)}) < MaxId
    /\ Begin(p, [NoReq EXCEPT !.op = "Create", !.body = b], "c_lock", NoLoc)

\* A POST /posts whose body carries an id field besides the body field:
\* json.Unmarshal stores both in p (0 stands for a body without id).
SuppliedIds == 0..MaxId
StartCreateBody(p, i, b) ==
    /\ MaxID(store) + Cardinality({q \in Procs : Creating(q)}) < MaxId
    /\ Begin(p, [NoReq EXCEPT !.op = "Create", !.id = i, !.body = b], "c_lock",
             [NoLoc EXCEPT !.post = Post(i, b)])

\* Lock as it would be were the mutex not exclusive.
LockNotExclusive(p) ==
    /\ pc[p] \in {"c_lock", "d_lock"}
    /\ postsMu' = p
    /\ Goto(p, IF pc[p] = "c_lock" THEN "c_max" ELSE "d_del", loc[p])
    /\ UNCHANGED <<store, cache, storeFaults, cacheFaults, maxAssigned, ack>>

\* postsMu.Lock() of handlePostPosts and handleDeletePost
Lock(p) ==
    /\ pc[p] \in {"c_lock", "d_lock"}
    /\ postsMu = NoProc
    /\ postsMu' = p
    /\ Goto(p, IF pc[p] = "c_lock" THEN "c_max" ELSE "d_del", loc[p])
    /\ UNCHANGED <<store, cache, storeFaults, cacheFaults, maxAssigned, ack>>

\* p.ID = maxIDResult.MaxID + 1, or 1 when the cursor is empty
NextPostID(s) == IF MaxID(s) # 0 THEN MaxID(s) + 1 ELSE 1

\* The choice of p.ID as it would be were an id of the request body kept.
CreateMaxIDKeepingId(p) ==
    /\ pc[p] = "c_max"
    /\ Goto(p, "c_insert",
            [loc[p] EXCEPT !.post = Post(IF req[p].id # 0 THEN req[p].id
                                                           ELSE NextPostID(store),
                                         req[p].body),
                           !.ev = <<"max">>])
    /\ UNCHANGED <<store, cache, postsMu, storeFaults, cacheFaults, maxAssigned, ack>>

\* The $sort/$limit/$project aggregate and the choice of p.ID
CreateMaxID(p) ==
    /\ pc[p] = "c_max"
    /\ Goto(p, "c_insert", [loc[p] EXCEPT !.post = Post(NextPostID(store), req[p].body),
                                          !.ev = <<"max">>])
    /\ UNCHANGED <<store, cache, postsMu, storeFaults, cacheFaults, maxAssigned, ack>>

\* What a write to the records with the ids S does to the acknowledged history.
Touch(a, S) == [i \in IdDom |-> IF i \in S THEN NoAck ELSE a[i]]

\* db.PostCol.InsertOne under the unique index; an error answers 500
CreateInsert(p) ==
    /\ pc[p] = "c_insert"
    /\ IF DuplicateKey(store, loc[p].post.id)
       THEN /\ Finish(p, Error(p, 500))
            /\ UNCHANGED <<store, maxAssigned, ack>>
       ELSE /\ store' = InsertDoc(store, loc[p].post)
            /\ maxAssigned' = IF loc[p].post.id > maxAssigned
                              THEN loc[p].post.id ELSE maxAssigned
            /\ ack' = Touch(ack, {loc[p].post.id})
            /\ Goto(p, "c_inval", [loc[p] EXCEPT !.ev = <<"mutate">>])
            /\ UNCHANGED postsMu
    /\ UNCHANGED <<cache, storeFaults, cacheFaults>>

\* The invalidation as it would be were it left to run after the response.
InvalidateDeferred(p, from, to, i) ==
    /\ pc[p] = from
    /\ Goto(p, to, loc[p])
    /\ UNCHANGED <<store, cache, postsMu, storeFaults, cacheFaults, maxAssigned, ack>>

\* cache.InvalidatePostCache(id) of the three write handlers
Invalidate(p, from, to, i) ==
    /\ pc[p] = from
    /\ cache' = IF redisOn THEN InvalidatePostCache(cache, i) ELSE cache
    /\ Goto(p, to, [loc[p] EXCEPT !.ev = Append(@, "invalidate")])
    /\ UNCHANGED <<store, postsMu, storeFaults, cacheFaults, maxAssigned, ack>>

\* The step after InsertOne as it would be were Create to write its record
\* through to the cache.
CreateWriteThrough(p) ==
    /\ pc[p] = "c_inval"
    /\ cache' = CachePost(cache, loc[p].post)
    /\ Goto(p, "c_resp", [loc[p] EXCEPT !.ev = Append(@, "invalidate")])
    /\ UNCHANGED <<store, postsMu, storeFaults, cacheFaults, maxAssigned, ack>>

CreateInvalidate(p) == Invalidate(p, "c_inval", "c_resp", loc[p].post.id)

\* utils.RespondWithStatus(w, 201, p)
CreateRespond(p) ==
    /\ pc[p] = "c_resp"
    /\ Finish(p, [NoResp EXCEPT !.status = 201, !.kind = "post",
                                !.post = loc[p].post,
                                !.ev = Append(loc[p].ev, "respond")])
    /\ UNCHANGED <<store, cache, storeFaults, cacheFaults, maxAssigned, ack>>

\* ----------------------------------------------------- DELETE /posts/{id}
StartDelete(p, i) ==
    Begin(p, [NoReq EXCEPT !.op = "Delete", !.id = i], "d_lock", NoLoc)

\* DeleteOne as it would be were the invalidation to run before the test of
\* DeletedCount.
DeleteOneInvalidating(p) ==
    /\ pc[p] = "d_del"
    /\ \/ /\ Matching(store, req[p].id) = {}
          /\ cache' = IF redisOn THEN InvalidatePostCache(cache, req[p].id) ELSE cache
          /\ Finish(p, Error(p, 404))
          /\ UNCHANGED <<store, ack>>
       \/ /\ \E d \in Matching(store, req[p].id) : store' = RemoveDoc(store, d)
          /\ ack' = Touch(ack, {req[p].id})
          /\ Goto(p, "d_inval", [loc[p] EXCEPT !.ev = <<"mutate">>])
          /\ UNCHANGED <<postsMu, cache>>
    /\ UNCHANGED <<storeFaults, cacheFaults, maxAssigned>>

\* db.PostCol.DeleteOne(id); DeletedCount = 0 answers 404
DeleteOne(p) ==
    /\ pc[p] = "d_del"
    /\ \/ /\ Matching(store, req[p].id) = {}
          /\ Finish(p, Error(p, 404))
          /\ UNCHANGED <<store, ack>>
       \/ /\ \E d \in Matching(store, req[p].id) : store' = RemoveDoc(store, d)
          /\ ack' = Touch(ack, {req[p].id})
          /\ Goto(p, "d_inval", [loc[p] EXCEPT !.ev = <<"mutate">>])
          /\ UNCHANGED postsMu
    /\ UNCHANGED <<cache, storeFaults, cacheFaults, maxAssigned>>

DeleteInvalidate(p) == Invalidate(p, "d_inval", "d_resp", req[p].id)

\* w.Write({"message": "Post deleted successfully"})
DeleteRespond(p) ==
    /\ pc[p] = "d_resp"
    /\ Finish(p, [NoResp EXCEPT !.status = 200, !.kind = "message",
                                !.ev = Append(loc[p].ev, "respond")])
    /\ ack' = [ack EXCEPT ![req[p].id] =
                  IF Matching(store, req[p].id) = {} THEN Deleted ELSE @]
    /\ UNCHANGED <<store, cache, storeFaults, cacheFaults, maxAssigned>>

\* -------------------------------------------------------- PUT /posts/{id}
StartUpdate(p, i, u) ==
    Begin(p, [NoReq EXCEPT !.op = "Update", !.id = i, !.patch = u], "u_upd", NoLoc)

\* The $set as it would pass were the collection to have no unique index.
SetNeverRefused(s, d, u) == FALSE

\* The unique index refuses a $set that moves d onto an id another document has.
SetRefused(s, d, u) ==
    ApplySet(d, u).id # d.id /\ DuplicateKey(RemoveDoc(s, d), ApplySet(d, u).id)

\* db.PostCol.UpdateOne(id, $set: updates); an error or MatchedCount = 0
\* answers 404
UpdateOne(p) ==
    /\ pc[p] = "u_upd"
    /\ \/ /\ Matching(store, req[p].id) = {}
          /\ Finish(p, Error(p, 404))
          /\ UNCHANGED <<store, ack>>
       \/ \E d \in Matching(store, req[p].id) :
             /\ SetRefused(store, d, req[p].patch)
             /\ Finish(p, Error(p, 404))
             /\ UNCHANGED <<store, ack>>
       \/ \E d \in Matching(store, req[p].id) :
             /\ ~SetRefused(store, d, req[p].patch)
             /\ store' = InsertDoc(RemoveDoc(store, d), ApplySet(d, req[p].patch))
             /\ ack' = Touch(ack, {d.id, ApplySet(d, req[p].patch).id})
             /\ Goto(p, "u_inval", [loc[p] EXCEPT !.ev = <<"mutate">>])
             /\ UNCHANGED postsMu
    /\ UNCHANGED <<cache, storeFaults, cacheFaults, maxAssigned>>

UpdateInvalidate(p) == Invalidate(p, "u_inval", "u_find", req[p].id)

\* The re-read db.PostCol.FindOne(id).Decode(&updatedPost)
UpdateFind(p) ==
    /\ pc[p] = "u_find"
    /\ \/ /\ Matching(store, req[p].id) = {}
          /\ Finish(p, Error(p, 500))
       \/ /\ \E d \in Matching(store, req[p].id) :
                Goto(p, "u_resp", [loc[p] EXCEPT !.post = d])
          /\ UNCHANGED postsMu
    /\ UNCHANGED <<store, cache, storeFaults, cacheFaults, maxAssigned, ack>>

\* utils.RespondWithJSON(w, updatedPost)
UpdateRespond(p) ==
    /\ pc[p] = "u_resp"
    /\ Finish(p, [NoResp EXCEPT !.status = 200, !.kind = "post",
                                !.post = loc[p].post,
                                !.ev = Append(loc[p].ev, "respond")])
    /\ ack' = [ack EXCEPT ![req[p].id] =
                  IF /\ PatchHas(req[p].patch, "body")
                     /\ Post(req[p].id, req[p].patch.body) \in Docs(store)
                  THEN req[p].patch.body ELSE @]
    /\ UNCHANGED <<store, cache, storeFaults, cacheFaults, maxAssigned>>

\* ------------------------------------------------------------- GET /posts
StartGetPage(p, l, o) ==
    Begin(p, [NoReq EXCEPT !.op = "GetPage", !.limit = l, !.offset = o],
          "l_cache", [NoLoc EXCEPT !.gone = {i \in IdDom : ack[i] = Deleted}])

\* The hit branch as it would be were limit and offset applied to the cached
\* listing.
GetPageCachedPaginated(p) ==
    /\ pc[p] = "l_cache"
    /\ \/ /\ redisOn /\ FetchOk(cache, allPostsKey) /\ UnmarshalPostsOk(cache[allPostsKey])
          /\ Finish(p, [NoResp EXCEPT
                 !.status = 200, !.kind = "array",
                 !.posts = LET all == UnmarshalPosts(cache[allPostsKey])
                               lim == ParseLimit(req[p].limit)
                               off == ParseOffset(req[p].offset)
                           IN  IF off >= Len(all) THEN <<>>
                               ELSE SubSeq(all, off + 1, Min2(off + lim, Len(all)))])
       \/ /\ ~redisOn \/ ~FetchOk(cache, allPostsKey) \/ ~UnmarshalPostsOk(cache[allPostsKey])
          /\ Goto(p, "l_find", loc[p])
          /\ UNCHANGED postsMu
    /\ UNCHANGED <<store, cache, storeFaults, cacheFaults, maxAssigned, ack>>

\* cache.GetCachedAllPosts and the hit branch: the decoded slice is the body
GetPageCached(p) ==
    /\ pc[p] = "l_cache"
    /\ \/ /\ redisOn /\ FetchOk(cache, allPostsKey) /\ UnmarshalPostsOk(cache[allPostsKey])
          /\ Finish(p, [NoResp EXCEPT !.status = 200, !.kind = "array",
                                      !.posts = UnmarshalPosts(cache[allPostsKey])])
       \/ /\ ~redisOn \/ ~FetchOk(cache, allPostsKey) \/ ~UnmarshalPostsOk(cache[allPostsKey])
          /\ Goto(p, "l_find", loc[p])
          /\ UNCHANGED postsMu
    /\ UNCHANGED <<store, cache, storeFaults, cacheFaults, maxAssigned, ack>>

EffLimit(p) == ParsePaginationParams(req[p].limit, req[p].offset)[1]
EffOffset(p) == ParsePaginationParams(req[p].limit, req[p].offset)[2]

\* ParsePaginationParams, db.PostCol.Find with the options, cursor.All
GetPageFind(p) ==
    /\ pc[p] = "l_find"
    /\ Goto(p, "l_put", [loc[p] EXCEPT !.ps = FindPage(store, EffLimit(p), EffOffset(p)),
                                       !.ev = <<"find">>])
    /\ UNCHANGED <<store, cache, postsMu, storeFaults, cacheFaults, maxAssigned, ack>>

\* cache.CacheAllPosts
CacheAllPosts(c, ps) ==
    IF redisOn THEN StoreInCache(c, allPostsKey, MarshalPosts(ps)) ELSE c

\* cache.CacheAllPosts(ps)
GetPageStore(p) ==
    /\ pc[p] = "l_put"
    /\ cache' = CacheAllPosts(cache, loc[p].ps)
    /\ Goto(p, "l_count", loc[p])
    /\ UNCHANGED <<store, postsMu, storeFaults, cacheFaults, maxAssigned, ack>>

Page(p, total) ==
    [NoResp EXCEPT !.status = 200, !.kind = "page", !.posts = loc[p].ps,
                   !.total = total, !.limit = EffLimit(p), !.offset = EffOffset(p),
                   !.ev = Append(loc[p].ev, "count")]

\* count, _ := db.PostCol.CountDocuments; RespondWithJSON(PaginatedResponse)
GetPageCount(p) ==
    /\ pc[p] = "l_count"
    /\ Finish(p, Page(p, CountDocuments(store)))
    /\ UNCHANGED <<store, cache, storeFaults, cacheFaults, maxAssigned, ack>>

\* ------------------------------------------------------------ validation
\* The id segment of the path /posts/{id} and the request body as the client
\* sends them.
PathIds == {<<>>, <<"x">>, <<"1">>, <<"1", "x">>}
RawBodies == {<<>>, <<"{", "body", "a">>, <<"{", "body", "a", "}">>}

\* json.Unmarshal / Decoder.Decode of a body into a struct or a map: the text
\* must be one closed object.
DecodeOk(b) == Len(b) >= 2 /\ b[1] = "{" /\ b[Len(b)] = "}"

\* The rejection as it would be were the body of a PUT decoded after the
\* invalidation.
BadRequestLate(p, op, rawId, rawBody) ==
    /\ Idle(p)
    /\ opsLeft > 0
    /\ \/ op \in {"GetPost", "Delete", "Update"} /\ ~AtoiOk(rawId) /\ rawBody = <<>>
       \/ op = "Create" /\ rawId = <<>> /\ ~DecodeOk(rawBody)
       \/ op = "Update" /\ AtoiOk(rawId) /\ ~DecodeOk(rawBody)
    /\ opsLeft' = opsLeft - 1
    /\ cache' = IF op = "Update" /\ AtoiOk(rawId) /\ redisOn
                THEN InvalidatePostCache(cache, Atoi(rawId)) ELSE cache
    /\ last' = [NoResp EXCEPT !.proc = p, !.op = op, !.status = 400, !.kind = "error",
                              !.rawId = rawId, !.rawBody = rawBody]
    /\ loc' = Quiet(p, loc)
    /\ UNCHANGED <<store, redisOn, postsMu, pc, req, storeFaults, cacheFaults,
                   maxAssigned, ack, parseVars>>

\* PostHandler answers 400 when strconv.Atoi refuses the id; handlePostPosts
\* and handleEditPost answer 400 when the body does not decode. Each returns
\* at once.
BadRequest(p, op, rawId, rawBody) ==
    /\ Idle(p)
    /\ opsLeft > 0
    /\ \/ op \in {"GetPost", "Delete", "Update"} /\ ~AtoiOk(rawId) /\ rawBody = <<>>
       \/ op = "Create" /\ rawId = <<>> /\ ~DecodeOk(rawBody)
       \/ op = "Update" /\ AtoiOk(rawId) /\ ~DecodeOk(rawBody)
    /\ opsLeft' = opsLeft - 1
    /\ last' = [NoResp EXCEPT !.proc = p, !.op = op, !.status = 400, !.kind = "error",
                              !.rawId = rawId, !.rawBody = rawBody]
    /\ loc' = Quiet(p, loc)
    /\ UNCHANGED <<store, cache, redisOn, postsMu, pc, req, storeFaults, cacheFaults,
                   maxAssigned, ack, parseVars>>

\* ------------------------------------------------------------ environment
\* A cache entry reaches its TTL (cacheDuration).
Expire(k) ==
    /\ cache[k] # NoEntry
    /\ cache' = [cache EXCEPT ![k] = NoEntry]
    /\ loc' = Quiet(NoProc, loc)
    /\ last' = NoResp
    /\ UNCHANGED <<store, redisOn, postsMu, pc, req, opsLeft, storeFaults,
                   cacheFaults, maxAssigned, ack, parseVars>>

Next ==
    \/ \E p \in Procs, i \in IdDom : StartGetPost(p, i)
    \/ \E p \in Procs : GetPostCached(p)
    \/ \E p \in Procs : GetPostFind(p)
    \/ \E p \in Procs : GetPostStore(p)
    \/ \E p \in Procs, b \in Bodies : StartCreate(p, b)
    \/ \E p \in Procs : Lock(p)
    \/ \E p \in Procs : CreateMaxID(p)
    \/ \E p \in Procs : CreateInsert(p)
    \/ \E p \in Procs : CreateInvalidate(p)
    \/ \E p \in Procs : CreateRespond(p)
    \/ \E p \in Procs, i \in IdDom : StartDelete(p, i)
    \/ \E p \in Procs : DeleteOne(p)
    \/ \E p \in Procs : DeleteInvalidate(p)
    \/ \E p \in Procs : DeleteRespond(p)
    \/ \E p \in Procs, i \in IdDom, u \in Patches : StartUpdate(p, i, u)
    \/ \E p \in Procs : UpdateOne(p)
    \/ \E p \in Procs : UpdateInvalidate(p)
    \/ \E p \in Procs : UpdateFind(p)
    \/ \E p \in Procs : UpdateRespond(p)
    \/ \E p \in Procs, l \in PageRaws, o \in PageRaws : StartGetPage(p, l, o)
    \/ \E p \in Procs : GetPageCached(p)
    \/ \E p \in Procs : GetPageFind(p)
    \/ \E p \in Procs : GetPageStore(p)
    \/ \E p \in Procs : GetPageCount(p)
    \/ \E k \in CacheKeys : Expire(k)

Spec == Init /\ [][Next]_vars

\* ---------------------------------------------------------------- faults
\* A failed store call as it would be were a failed max-id query taken for an
\* empty collection.
StoreFailsGuessId(p) ==
    /\ StoreFault
    /\ storeFaults' = storeFaults + 1
    /\ \/ /\ pc[p] = "gp_find"
          /\ Finish(p, [Error(p, 404) EXCEPT !.ev = <<"find">>])
       \/ /\ pc[p] \in {"d_del", "u_upd"}
          /\ Finish(p, Error(p, 404))
       \/ /\ pc[p] \in {"c_insert", "u_find", "l_find"}
          /\ Finish(p, Error(p, 500))
       \/ /\ pc[p] = "c_max"
          /\ Goto(p, "c_insert", [loc[p] EXCEPT !.post = Post(1, req[p].body),
                                                !.ev = <<"max">>])
          /\ UNCHANGED postsMu
       \/ /\ pc[p] = "l_count"
          /\ Finish(p, Page(p, 0))
    /\ UNCHANGED <<store, cache, cacheFaults, maxAssigned, ack>>

\* A store call returns an error (unreachable server, timeout of the 5 s
\* context): each handler takes its err != nil branch.
StoreFails(p) ==
    /\ StoreFault
    /\ storeFaults' = storeFaults + 1
    /\ \/ /\ pc[p] = "gp_find"
          /\ Finish(p, [Error(p, 404) EXCEPT !.ev = <<"find">>])
       \/ /\ pc[p] \in {"d_del", "u_upd"}
          /\ Finish(p, Error(p, 404))
       \/ /\ pc[p] \in {"c_max", "c_insert", "u_find", "l_find"}
          /\ Finish(p, Error(p, 500))
       \/ /\ pc[p] = "l_count"
          /\ Finish(p, Page(p, 0))
    /\ UNCHANGED <<store, cache, cacheFaults, maxAssigned, ack>>

\* A failed cache call as it would be were the error passed to the client.
CacheFailsFatal(p) ==
    /\ redisOn /\ CacheFault
    /\ cacheFaults' = cacheFaults + 1
    /\ pc[p] \in {"gp_cache", "l_cache", "gp_put", "l_put", "c_inval", "d_inval", "u_inval"}
    /\ Finish(p, [Error(p, 500) EXCEPT !.cf = TRUE])
    /\ UNCHANGED <<store, cache, storeFaults, maxAssigned, ack>>

\* A cache call returns an error: FetchFromCache answers false, StoreInCache
\* and InvalidatePostCache log it and return.
CacheFails(p) ==
    /\ redisOn /\ CacheFault
    /\ cacheFaults' = cacheFaults + 1
    /\ \/ /\ pc[p] \in {"gp_cache", "l_cache"}
          /\ Goto(p, IF pc[p] = "gp_cache" THEN "gp_find" ELSE "l_find",
                  [loc[p] EXCEPT !.follow = NoPost, !.cf = TRUE])
          /\ UNCHANGED postsMu
       \/ /\ pc[p] = "gp_put"
          /\ Finish(p, [Meta(p, loc[p].post, "database") EXCEPT !.follow = NoPost,
                                                                !.cf = TRUE])
       \/ /\ pc[p] = "l_put"
          /\ Goto(p, "l_count", [loc[p] EXCEPT !.cf = TRUE])
          /\ UNCHANGED postsMu
       \/ /\ pc[p] \in {"c_inval", "d_inval", "u_inval"}
          /\ Goto(p, CASE pc[p] = "c_inval" -> "c_resp"
                       [] pc[p] = "d_inval" -> "d_resp"
                       [] OTHER -> "u_find",
                  [loc[p] EXCEPT !.ev = Append(@, "invalidate"), !.cf = TRUE])
          /\ UNCHANGED postsMu
    /\ UNCHANGED <<store, cache, storeFaults, maxAssigned, ack>>

NextFaulty ==
    \/ Next
    \/ \E p \in Procs : StoreFails(p)
    \/ \E p \in Procs : CacheFails(p)

\* Every request, with store and cache calls that may fail.
SpecFaulty == Init /\ [][NextFaulty]_vars

\* ------------------------------------------------- other specifications
Creates ==
    \/ \E p \in Procs, b \in Bodies : StartCreate(p, b)
    \/ \E p \in Procs : Lock(p)
    \/ \E p \in Procs : CreateMaxID(p)
    \/ \E p \in Procs : CreateInsert(p)
    \/ \E p \in Procs : CreateInvalidate(p)
    \/ \E p \in Procs : CreateRespond(p)

\* Concurrent POST /posts requests and no other request.
SpecCreate == Init /\ [][Creates]_vars

Writes ==
    \/ Creates
    \/ \E p \in Procs, i \in IdDom : StartDelete(p, i)
    \/ \E p \in Procs : DeleteOne(p)
    \/ \E p \in Procs : DeleteInvalidate(p)
    \/ \E p \in Procs : DeleteRespond(p)
    \/ \E p \in Procs, i \in IdDom, u \in Patches : StartUpdate(p, i, u)
    \/ \E p \in Procs : UpdateOne(p)
    \/ \E p \in Procs : UpdateInvalidate(p)
    \/ \E p \in Procs : UpdateFind(p)
    \/ \E p \in Procs : UpdateRespond(p)

\* Concurrent POST, PUT and DELETE requests.
SpecWrites == Init /\ [][Writes]_vars

Items ==
    \/ Writes
    \/ \E p \in Procs, i \in IdDom : StartGetPost(p, i)
    \/ \E p \in Procs : GetPostCached(p)
    \/ \E p \in Procs : GetPostFind(p)
    \/ \E p \in Procs : GetPostStore(p)
    \/ \E k \in CacheKeys : Expire(k)

\* Every request but the listing GET /posts.
SpecItems == Init /\ [][Items]_vars

\* One client that waits for each response before its next request.
OneAtATime == Cardinality({p \in Procs : InFlight(p)}) <= 1
NextSeq == Next /\ OneAtATime'
SpecSeq == Init /\ [][NextSeq]_vars

\* Concurrent POST, PUT and DELETE requests with store calls that may fail.
WritesFaulty == Writes \/ \E p \in Procs : StoreFails(p)
SpecWritesFaulty == Init /\ [][WritesFaulty]_vars

\* Concurrent POST /posts and GET /posts/{id} requests, with entries that may
\* expire and cache calls that may fail.
CreatesAndReads ==
    \/ Creates
    \/ \E p \in Procs, i \in IdDom : StartGetPost(p, i)
    \/ \E p \in Procs : GetPostCached(p)
    \/ \E p \in Procs : GetPostFind(p)
    \/ \E p \in Procs : GetPostStore(p)
    \/ \E k \in CacheKeys : Expire(k)
    \/ \E p \in Procs : CacheFails(p)
SpecCreatesAndReads == Init /\ [][CreatesAndReads]_vars

\* Concurrent POST /posts and GET /posts requests, with entries that may
\* expire.
Pages ==
    \/ Creates
    \/ \E p \in Procs, l \in PageRaws, o \in PageRaws : StartGetPage(p, l, o)
    \/ \E p \in Procs : GetPageCached(p)
    \/ \E p \in Procs : GetPageFind(p)
    \/ \E p \in Procs : GetPageStore(p)
    \/ \E p \in Procs : GetPageCount(p)
    \/ \E k \in CacheKeys : Expire(k)
SpecPages == Init /\ [][Pages]_vars

\* Concurrent POST /posts and GET /posts/{id} requests, and requests of every
\* kind with a malformed id or body.
Validating ==
    \/ Creates
    \/ \E p \in Procs, i \in IdDom : StartGetPost(p, i)
    \/ \E p \in Procs : GetPostCached(p)
    \/ \E p \in Procs : GetPostFind(p)
    \/ \E p \in Procs : GetPostStore(p)
    \/ \E p \in Procs, op \in {"GetPost", "Create", "Update", "Delete"},
          rawId \in PathIds, rawBody \in RawBodies : BadRequest(p, op, rawId, rawBody)
SpecValidating == Init /\ [][Validating]_vars

\* Concurrent POST /posts and DELETE /posts/{id} requests with store calls
\* that may fail. Every call a handler makes returns (with a result, or with
\* the error of its 5 s context), and sync.Mutex hands the mutex to a waiter
\* that keeps being passed over (starvation mode).
HandlerStep(p) ==
    \/ CreateMaxID(p) \/ CreateInsert(p) \/ CreateInvalidate(p) \/ CreateRespond(p)
    \/ DeleteOne(p) \/ DeleteInvalidate(p) \/ DeleteRespond(p)
    \/ StoreFails(p)
Locking ==
    \/ \E p \in Procs, b \in Bodies : StartCreate(p, b)
    \/ \E p \in Procs, i \in IdDom : StartDelete(p, i)
    \/ \E p \in Procs : Lock(p)
    \/ \E p \in Procs : HandlerStep(p)
SpecLocking ==
    /\ Init /\ [][Locking]_vars
    /\ \A p \in Procs : WF_vars(HandlerStep(p)) /\ SF_vars(Lock(p))

\* Concurrent POST /posts requests whose bodies may carry an id, and
\* DELETE /posts/{id} requests.
CreatesWithIds ==
    \/ \E p \in Procs, i \in SuppliedIds, b \in Bodies : StartCreateBody(p, i, b)
    \/ \E p \in Procs : Lock(p)
    \/ \E p \in Procs : CreateMaxID(p)
    \/ \E p \in Procs : CreateInsert(p)
    \/ \E p \in Procs : CreateInvalidate(p)
    \/ \E p \in Procs : CreateRespond(p)
    \/ \E p \in Procs, i \in IdDom : StartDelete(p, i)
    \/ \E p \in Procs : DeleteOne(p)
    \/ \E p \in Procs : DeleteInvalidate(p)
    \/ \E p \in Procs : DeleteRespond(p)
SpecCreatesWithIds == Init /\ [][CreatesWithIds]_vars

\* One client at a time, with cache calls that may fail.
NextSeqCacheFaulty == (Next \/ \E p \in Procs : CacheFails(p)) /\ OneAtATime'
SpecSeqCacheFaulty == Init /\ [][NextSeqCacheFaulty]_vars

\* One client at a time, with store and cache calls that may fail.
NextSeqFaulty == NextFaulty /\ OneAtATime'
SpecSeqFaulty == Init /\ [][NextSeqFaulty]_vars

\* ParsePaginationParams alone, over every raw query value.
RECURSIVE RawStrings(_)
RawStrings(n) ==
    IF n = 0 THEN {<<>>}
    ELSE RawStrings(n - 1) \cup
         {Append(s, c) : s \in {t \in RawStrings(n - 1) : Len(t) = n - 1}, c \in RawChars}

InitParse ==
    /\ store = EmptyBag
    /\ cache = [k \in CacheKeys |-> NoEntry]
    /\ redisOn = TRUE
    /\ postsMu = NoProc
    /\ pc = [p \in Procs |-> "idle"]
    /\ req = [p \in Procs |-> NoReq]
    /\ loc = [p \in Procs |-> NoLoc]
    /\ last = NoResp
    /\ opsLeft = 0
    /\ storeFaults = 0
    /\ cacheFaults = 0
    /\ maxAssigned = 0
    /\ ack = [i \in IdDom |-> NoAck]
    /\ rawLimit \in RawStrings(MaxRawLen)
    /\ rawOffset \in RawStrings(MaxRawLen)
    /\ parsed = NotParsed

Parse ==
    /\ parsed = NotParsed
    /\ parsed' = ParsePaginationParams(rawLimit, rawOffset)
    /\ UNCHANGED <<store, cache, redisOn, postsMu, pc, req, loc, last, opsLeft,
                   storeFaults, cacheFaults, maxAssigned, ack, rawLimit, rawOffset>>

SpecParse == InitParse /\ [][Parse]_vars

\* ------------------------------------------------------------ properties
AllIdle == \A p \in Procs : Idle(p)
Sent == MaxOps - opsLeft
IdsOf(s) == {d.id : d \in Docs(s)}
Succeeded(r) == r.status \in {200, 201}

\* C1: concurrent Create calls with no other writer all succeed, their ids
\* are pairwise distinct, and from an empty store n of them leave exactly
\* the ids 1..n.
C1_ConcurrentCreates ==
    /\ last.op = "Create" => last.status = 201 /\ last.post \in Docs(store)
    /\ BagCardinality(store) = Cardinality(IdsOf(store))
    /\ AllIdle => BagCardinality(store) = Sent /\ IdsOf(store) = 1..Sent

\* A Create has answered with id 1 while another Create waits for the mutex.
C1_Witness ==
    /\ last.op = "Create" /\ last.status = 201 /\ last.post.id = 1
    /\ \E q \in Procs : pc[q] = "c_lock"

\* C2: every id a Create inserts is greater than every id inserted before.
C2_IdsIncrease ==
    [][\A p \in Procs :
          (pc[p] = "c_insert" /\ pc'[p] = "c_inval") => loc[p].post.id > maxAssigned]_vars

\* C3: a GetPost(id) that starts after Update(id, {body: X}) was acknowledged,
\* with no later write to id, returns body X.
C3_ReadSeesUpdate ==
    (last.op = "GetPost" /\ last.exp \in Bodies)
        => (last.status = 200 /\ last.post.body = last.exp)

\* C4: a GetPost(id) that starts after Delete(id) was acknowledged, before any
\* Create or Update gives a record that id again, fails with NotFound.
C4_ReadAfterDelete ==
    (last.op = "GetPost" /\ last.exp = Deleted) => last.status = 404

\* C5: with the cache present, a GetPost(id) issued right after a GetPost(id)
\* that answered source=database, nothing in between, answers source=cache
\* with the same id and body.
C5_ReadAfterMiss ==
    (last.op = "GetPost" /\ last.follow # NoPost /\ redisOn)
        => (last.status = 200 /\ last.source = "cache" /\ last.post = last.follow)

C5_Witness ==
    /\ last.op = "GetPost" /\ last.follow # NoPost /\ redisOn
    /\ last.source = "cache" /\ last.post = last.follow

\* What the same request answers from the store alone: its status and the
\* posts it returns.
StoreStatus(r) ==
    IF r.op = "GetPost" /\ Matching(store, r.id) = {} THEN 404 ELSE 200
StorePosts(r) ==
    IF r.op = "GetPost"
    THEN IF Matching(store, r.id) = {} THEN <<>>
         ELSE <<CHOOSE d \in Matching(store, r.id) : TRUE>>
    ELSE FindPage(store, ParseLimit(r.rawLimit), ParseOffset(r.rawOffset))
Returned(r) ==
    IF r.op = "GetPost" THEN (IF r.status = 200 THEN <<r.post>> ELSE <<>>)
    ELSE r.posts

\* C6: in a sequence of calls every GetPost and GetPage answers with the status
\* and the posts the cache-absent system answers with (the writes never read
\* the cache, so the two systems hold the same store).
C6_SameAsCacheAbsent ==
    last.op \in {"GetPost", "GetPage"}
        => (last.status = StoreStatus(last) /\ Returned(last) = StorePosts(last))

\* The claim's reading of a raw query value: a decimal numeral with an
\* optional sign, valued digit by digit.
DigitChars == <<"0", "1", "2", "3", "4", "5", "6", "7", "8", "9">>
IsDigit(c) == \E k \in 1..Len(DigitChars) : DigitChars[k] = c
DigitNum(c) == (CHOOSE k \in 1..Len(DigitChars) : DigitChars[k] = c) - 1
RECURSIVE Pow10(_)
Pow10(n) == IF n = 0 THEN 1 ELSE 10 * Pow10(n - 1)
FirstDigit(s) == IF s # <<>> /\ s[1] \in {"+", "-"} THEN 2 ELSE 1
IsNumeral(s) == FirstDigit(s) <= Len(s) /\ \A k \in FirstDigit(s)..Len(s) : IsDigit(s[k])
RECURSIVE Magnitude(_, _)
Magnitude(s, k) ==
    IF k > Len(s) THEN 0
    ELSE DigitNum(s[k]) * Pow10(Len(s) - k) + Magnitude(s, k + 1)
Value(s) == IF s[1] = "-" THEN 0 - Magnitude(s, 2) ELSE Magnitude(s, FirstDigit(s))

\* C7: the effective limit is the supplied one when it is a positive integer
\* and 10 otherwise; the effective offset is the supplied one when it is a
\* non-negative integer and 0 otherwise; the parser always answers.
C7_Clamping ==
    parsed # NotParsed =>
        /\ parsed[1] = IF IsNumeral(rawLimit) /\ Value(rawLimit) > 0
                       THEN Value(rawLimit) ELSE 10
        /\ parsed[2] = IF IsNumeral(rawOffset) /\ Value(rawOffset) >= 0
                       THEN Value(rawOffset) ELSE 0

\* limit=-1 and offset=-1 have been parsed.
C7_Witness ==
    /\ rawLimit = <<"-", "1">> /\ rawOffset = <<"-", "1">>
    /\ parsed = <<10, 0>>

\* C8: an Update leaves the id of every record as it was.
C8_UpdateKeepsId ==
    [][\A p \in Procs : (pc[p] = "u_upd" /\ pc'[p] # "u_upd") => IdsOf(store') = IdsOf(store)]_vars

\* C9: the store holds at most one record for each id.
C9_OneRecordPerId ==
    \A d \in Docs(store) :
        /\ CopiesIn(d, store) = 1
        /\ \A e \in Docs(store) : e.id = d.id => e = d

\* The index has refused an Update that would move a record onto a taken id.
C9_Witness ==
    /\ last.op = "Update" /\ last.status = 404
    /\ last.patch.id # 0 /\ last.patch.id # last.id
    /\ Matching(store, last.id) # {} /\ Matching(store, last.patch.id) # {}

\* C10: a Create, Update or Delete that answers success has mutated the store,
\* then run the invalidation, then written the response.
C10_InvalidateBeforeRespond ==
    (last.op \in {"Create", "Update", "Delete"} /\ Succeeded(last))
        => last.ev = <<"mutate", "invalidate", "respond">>

C10_Witness ==
    /\ last.op = "Update" /\ Succeeded(last) /\ PatchHas(last.patch, "body")
    /\ last.ev = <<"mutate", "invalidate", "respond">>

\* C11: a request one of whose cache calls failed answers with the status and
\* the result the store alone gives, never with an error from the cache.
C11_CacheFailureIsMiss ==
    last.cf =>
        /\ last.op \in {"GetPost", "GetPage"} =>
              /\ last.status = StoreStatus(last)
              /\ Returned(last) = StorePosts(last)
              /\ last.op = "GetPage" => last.total = CountDocuments(store)
        /\ last.op = "Create" => last.status = 201 /\ last.post \in Docs(store)
        /\ last.op = "Delete" => last.status = 200 /\ Matching(store, last.id) = {}
        /\ last.op = "Update" =>
              IF Matching(store, last.id) = {} THEN last.status = 500
              ELSE last.status = 200 /\ last.post \in Matching(store, last.id)

\* The lookup of a GetPost failed while the entry was cached, and the request
\* answered from the store.
C11_Witness ==
    /\ last.cf /\ last.op = "GetPost" /\ last.status = 200
    /\ last.ev = <<"find">>
    /\ cache[BuildPostKey(last.id)] = MarshalPost(last.post)
    /\ cacheFaults = 1

\* C12: every successful GetPage answers an object with posts, totalPosts,
\* limit and offset, from the cache as from the store.
C12_PageShape ==
    (last.op = "GetPage" /\ last.status = 200) => last.kind = "page"

\* C13: Update answers 404 only when no record has the id; a store error of
\* the mutation answers 500.
C13_UpdateNotFoundOnlyWhenAbsent ==
    (last.op = "Update" /\ last.status = 404) => Matching(store, last.id) = {}

\* C14: a GetPost that finds a well-formed entry answers it with source=cache
\* and makes no store call; a GetPost answer has source=database exactly when
\* the record was read from the store.
C14_HitNoStoreAccess ==
    /\ [](last.op = "GetPost" /\ last.status = 200 =>
            /\ last.source = "database" <=> last.ev = <<"find">>
            /\ last.source = "cache" <=> last.ev = <<>>)
    /\ [][\A p \in Procs :
            (/\ pc[p] = "gp_cache" /\ pc'[p] # "gp_cache"
             /\ redisOn /\ FetchOk(cache, BuildPostKey(req[p].id))
             /\ UnmarshalPostOk(cache[BuildPostKey(req[p].id)]))
            => /\ last'.status = 200 /\ last'.source = "cache" /\ last'.ev = <<>>
               /\ last'.post = UnmarshalPost(cache[BuildPostKey(req[p].id)])
               /\ store' = store]_vars

\* A GetPost has answered from the cache a record that the store no longer
\* holds as cached.
C14_Witness ==
    /\ last.op = "GetPost" /\ last.status = 200 /\ last.source = "cache"
    /\ last.ev = <<>> /\ last.post \notin Docs(store)

\* The span of a Create from the max-id query through the insert, and the
\* removal of a Delete.
InCritical(p) == pc[p] \in {"c_max", "c_insert", "d_del"}

\* C15: at most one request is inside a Create or Delete critical section,
\* and it holds the mutex.
C15_MutualExclusion ==
    /\ Cardinality({p \in Procs : InCritical(p)}) <= 1
    /\ \A p \in Procs : InCritical(p) => postsMu = p

\* A Create is about to insert while a Delete waits for the mutex.
C15_Witness ==
    \E p, q \in Procs : pc[p] = "c_insert" /\ pc[q] = "d_lock"

\* C16: a Create whose max-id query fails answers an error, inserts nothing
\* and assigns no id; a Create takes id 1 only from an empty store.
C16_MaxIdFailure ==
    /\ [](\A p \in Procs :
            (pc[p] = "c_insert" /\ loc[p].post.id = 1) => store = EmptyBag)
    /\ [][\A p \in Procs :
            (pc[p] = "c_max" /\ pc'[p] = "idle")
            => /\ last'.status = 500 /\ last'.kind = "error" /\ last'.post = NoPost
               /\ store' = store /\ maxAssigned' = maxAssigned]_vars

\* The max-id query of a Create has failed on a store that holds a record.
C16_Witness ==
    /\ last.op = "Create" /\ last.status = 500 /\ last.ev = <<>>
    /\ store # EmptyBag /\ storeFaults > 0

\* C17: a successful Update leaves the item entry holding the record it
\* re-read (cache present).
C17_UpdateRecaches ==
    (last.op = "Update" /\ last.status = 200 /\ redisOn)
        => cache[BuildPostKey(last.id)] = MarshalPost(last.post)

\* C18: an Update or Delete of an id no record has answers 404, and no step
\* of it up to that answer changes the store or any cache entry.
C18_NotFoundNoEffects ==
    [][\A p \in Procs :
         /\ (/\ pc[p] \in {"u_upd", "d_del"} /\ pc'[p] # pc[p]
             /\ Matching(store, req[p].id) = {})
            => /\ last'.status = 404 /\ loc[p].ev = <<>>
               /\ store' = store /\ cache' = cache
         /\ (pc'[p] \in {"u_upd", "d_lock", "d_del"} /\ pc'[p] # pc[p])
            => store' = store /\ cache' = cache]_vars

\* An Update or Delete has answered 404 for an id without a record while an
\* item entry of that id was cached.
C18_Witness ==
    /\ last.op \in {"Update", "Delete"} /\ last.status = 404
    /\ Matching(store, last.id) = {}
    /\ cache[BuildPostKey(last.id)] # NoEntry

Effects(r) == {r.ev[k] : k \in 1..Len(r.ev)} \cap {"mutate", "invalidate"}

\* C20: a request that answers a server error has changed neither the store
\* nor the cache.
C20_ServerErrorNoEffects ==
    last.status = 500 => Effects(last) = {}

\* C21: with no request in flight, a present aggregate entry holds the full
\* listing of the store, whatever limit and offset the request that wrote it
\* carried (one client at a time: every write since would have removed it).
C21_AggregateIsFullListing ==
    (AllIdle /\ FetchOk(cache, allPostsKey))
        => UnmarshalPosts(cache[allPostsKey]) = SortedDocs(store)

\* C22: a GetPage that finds the aggregate entry answers the whole cached
\* listing whatever its limit and offset, calls the store not at all and
\* leaves the cache as it was.
C22_HitReturnsCachedListing ==
    [][\A p \in Procs :
         (/\ pc[p] = "l_cache" /\ pc'[p] # "l_cache"
          /\ redisOn /\ FetchOk(cache, allPostsKey)
          /\ UnmarshalPostsOk(cache[allPostsKey]))
         => /\ last'.status = 200 /\ last'.ev = <<>>
            /\ last'.posts = UnmarshalPosts(cache[allPostsKey])
            /\ store' = store /\ cache' = cache]_vars

\* A GetPage with offset=1 has answered a cached listing of one post that
\* is not the page the store gives for it.
C22_Witness ==
    /\ last.op = "GetPage" /\ last.status = 200 /\ last.ev = <<>>
    /\ last.rawOffset = <<"1">> /\ Len(last.posts) = 1
    /\ last.posts # FindPage(store, ParseLimit(last.rawLimit), ParseOffset(last.rawOffset))

\* C23: a GetPage that misses answers the records at positions offset ..
\* offset+limit-1 of the store sorted by id, the number of records as
\* totalPosts, and the effective limit and offset.
C23_MissReturnsPage ==
    (last.op = "GetPage" /\ last.status = 200 /\ last.kind = "page")
        => /\ last.posts = FindPage(store, ParseLimit(last.rawLimit),
                                    ParseOffset(last.rawOffset))
           /\ last.total = CountDocuments(store)
           /\ last.limit = ParseLimit(last.rawLimit)
           /\ last.offset = ParseOffset(last.rawOffset)

\* C24: a request with a malformed id, or a Create or Update whose body does
\* not decode, answers 400 in one step that leaves the store, the cache, the
\* mutex and every request in flight as they were.
C24_RejectedBeforeAnyAccess ==
    /\ [](last.status = 400 =>
            \/ last.op \in {"GetPost", "Delete", "Update"} /\ ~AtoiOk(last.rawId)
            \/ last.op \in {"Create", "Update"} /\ ~DecodeOk(last.rawBody))
    /\ [][(last'.status = 400 /\ last' # last)
            => /\ store' = store /\ cache' = cache
               /\ postsMu' = postsMu /\ pc' = pc
               /\ last'.ev = <<>>]_vars

\* A PUT /posts/1 with a truncated body has been rejected while post 1 was
\* cached and a Create held the mutex.
C24_Witness ==
    /\ last.status = 400 /\ last.op = "Update"
    /\ last.rawId = <<"1">> /\ last.rawBody = <<"{", "body", "a">>
    /\ cache[BuildPostKey(1)] # NoEntry
    /\ postsMu # NoProc

\* C25: a GetPost that misses reads the store; without a record it answers
\* 404 and writes no cache entry; with one it writes that record under the
\* item key and answers it with source=database.
C25_MissReadsStore ==
    [][\A p \in Procs :
         /\ (/\ pc[p] = "gp_cache" /\ pc'[p] # "gp_cache"
             /\ ~(redisOn /\ FetchOk(cache, BuildPostKey(req[p].id))))
            => pc'[p] = "gp_find" /\ cache' = cache
         /\ (pc[p] = "gp_find" /\ pc'[p] # "gp_find" /\ storeFaults' = storeFaults)
            => /\ cache' = cache
               /\ IF Matching(store, req[p].id) = {}
                  THEN last'.status = 404
                  ELSE pc'[p] = "gp_put" /\ loc'[p].post \in Matching(store, req[p].id)
         /\ (pc[p] = "gp_put" /\ pc'[p] # "gp_put" /\ cacheFaults' = cacheFaults)
            => /\ last'.status = 200 /\ last'.source = "database"
               /\ last'.post = loc[p].post
               /\ redisOn => cache' = [cache EXCEPT ![BuildPostKey(req[p].id)] =
                                                      MarshalPost(loc[p].post)]
               /\ ~redisOn => cache' = cache]_vars

\* A GetPost has answered from the store and the item entry holds what it
\* answered, in place of an older entry's body.
C25_Witness ==
    /\ last.op = "GetPost" /\ last.source = "database" /\ last.post.body = "a"
    /\ cache[BuildPostKey(last.id)] = MarshalPost(last.post)
    /\ ack[last.id] = "a"

\* C26: a GetPage that starts after a Delete was acknowledged answers no
\* listing that still holds the deleted record (such a listing was read from
\* the store before the Delete).
C26_PageAfterWrite ==
    (last.op = "GetPage" /\ last.status = 200)
        => \A k \in 1..Len(last.posts) : last.posts[k].id \notin last.gone

\* C27: with the cache backend unreachable at start-up the cache stays
\* disabled: no cache call reaches the backend, every GetPost and GetPage
\* answers from the store, and the writes answer as the store decides.
C27_CacheDisabled ==
    /\ [](~redisOn =>
            /\ \A k \in CacheKeys : cache[k] = NoEntry
            /\ cacheFaults = 0 /\ ~last.cf
            /\ (last.op = "GetPost" /\ last.status = 200)
                  => last.source = "database" /\ last.ev = <<"find">>
            /\ last.op = "GetPage"
                  => last.kind = "page" /\ last.ev = <<"find", "count">>
            /\ last.op = "Create" => last.status = 201 /\ last.post \in Docs(store)
            /\ last.op = "Delete"
                  => /\ last.status \in {200, 404}
                     /\ Matching(store, last.id) = {}
            /\ last.op = "Update"
                  => \/ last.status = 200 /\ last.post \in Matching(store, last.id)
                     \/ last.status \in {404, 500})
    /\ [][redisOn' = redisOn]_vars

\* With the cache disabled a GetPost has answered twice in a row from the
\* store.
C27_Witness ==
    /\ ~redisOn /\ last.op = "GetPost" /\ last.source = "database"
    /\ last.follow = last.post

\* C28: the $set of an Update leaves every field the patch does not name, and
\* every other record, as it was.
C28_UpdateTouchesNamedFields ==
    [][\A p \in Procs :
         (pc[p] = "u_upd" /\ pc'[p] = "u_inval")
         => \E d \in Matching(store, req[p].id), e \in Docs(store') :
               /\ store' = InsertDoc(RemoveDoc(store, d), e)
               /\ e.id = IF req[p].patch.id # 0 THEN req[p].patch.id ELSE d.id
               /\ e.body = IF req[p].patch.body # "" THEN req[p].patch.body ELSE d.body]_vars

\* An Update naming only the body has answered while the store holds a
\* second record.
C28_Witness ==
    /\ last.op = "Update" /\ last.status = 200
    /\ last.patch.id = 0 /\ last.patch.body # ""
    /\ last.post.body = last.patch.body
    /\ BagCardinality(store) = 2

\* C29: with no request in flight every present item entry equals the record
\* the store holds for its id, and no entry is present for an id without a
\* record.
C29_IdleCacheMatchesStore ==
    AllIdle =>
        \A i \in IdDom :
            FetchOk(cache, BuildPostKey(i))
                => Matching(store, i) = {UnmarshalPost(cache[BuildPostKey(i)])}

\* C30: the mutex is held only by a Create or Delete in flight past its Lock
\* call, so every exit path has released it; with nothing in flight it is
\* free; and every Create and Delete request eventually responds.
C30_MutexReleased ==
    /\ [](postsMu # NoProc =>
            pc[postsMu] \in {"c_max", "c_insert", "c_inval", "c_resp",
                             "d_del", "d_inval", "d_resp"})
    /\ [](AllIdle => postsMu = NoProc)
    /\ \A p \in Procs : (pc[p] # "idle") ~> (pc[p] = "idle")

\* A request has left on an error path while the other waits for the mutex,
\* which is free.
C30_Witness ==
    /\ last.status \in {404, 500} /\ last.op \in {"Create", "Delete"}
    /\ postsMu = NoProc
    /\ \E q \in Procs : pc[q] \in {"c_lock", "d_lock"}

\* C31: every value written to an item entry post:<id> is a record with that
\* id which the writing request itself read from the store; only the store
\* branch of GetPost writes item entries.
C31_ItemWritesComeFromStore ==
    [][/\ \A i \in IdDom :
            LET k == BuildPostKey(i) IN
            (cache'[k] # cache[k] /\ cache'[k] # NoEntry)
            => \E p \in Procs :
                  /\ req[p].op = "GetPost" /\ req[p].id = i
                  /\ pc[p] = "gp_put" /\ loc[p].ev = <<"find">>
                  /\ UnmarshalPostOk(cache'[k])
                  /\ UnmarshalPost(cache'[k]) = loc[p].post
                  /\ loc[p].post.id = i
       /\ \A p \in Procs :
            (pc[p] = "gp_find" /\ pc'[p] = "gp_put")
            => loc'[p].post \in Matching(store, req[p].id)]_vars

\* A GetPost has written the record it read under its id, and the store has
\* since lost that record: the entry is what the request read, not what a
\* request supplied.
C31_Witness ==
    /\ last.op = "GetPost" /\ last.source = "database"
    /\ last.post.id = last.id
    /\ cache[BuildPostKey(last.id)] = MarshalPost(last.post)
    /\ Matching(store, last.id) = {}

\* C32: Create ignores an id supplied in the request body: the record it
\* inserts and answers has the id the allocator produced and the body the
\* request supplied.
C32_CreateIgnoresSuppliedId ==
    /\ [](\A p \in Procs :
            pc[p] \in {"c_insert", "c_inval", "c_resp"}
            => /\ loc[p].post.body = req[p].body
               /\ pc[p] = "c_insert" => loc[p].post.id = NextPostID(store)
               /\ pc[p] # "c_insert" => loc[p].post \in Docs(store))
    /\ [][\A p \in Procs :
            /\ (pc[p] = "c_max" /\ pc'[p] = "c_insert")
               => loc'[p].post = Post(NextPostID(store), req[p].body)
            /\ (pc[p] = "c_insert" /\ pc'[p] = "c_inval")
               => store' = InsertDoc(store, loc[p].post) /\ loc'[p].post = loc[p].post
            /\ (pc[p] = "c_resp" /\ pc'[p] = "idle")
               => /\ last'.status = 201 /\ last'.post = loc[p].post
                  /\ last'.post.body = req[p].body]_vars

\* A Create whose body carried an id has answered a stored record with
\* another id.
C32_Witness ==
    /\ last.op = "Create" /\ last.status = 201
    /\ last.id # 0 /\ last.post.id # last.id
    /\ last.post \in Docs(store)

====
